---- MODULE Spec2Model ----
(***************************************************************************)
(* xmonitor (src/main.ts): an uptime monitor.  main() loads a list of      *)
(* targets, registers one recurring node-schedule job per target and one   *)
(* warm-up timer; every tick and the warm-up start an asynchronous         *)
(* checkOnce(cfg, state) that probes the URL, logs the outcome, and sends  *)
(* an e-mail when the target's lastUp flag changes.                        *)
(*                                                                         *)
(* JavaScript runs each callback to its next await without interruption,   *)
(* so an action of this model is one such run-to-await segment.            *)
(***************************************************************************)
EXTENDS Integers, Sequences, FiniteSets

\* ------------------------------------------------------------------ bounds
MaxTicks == 2        \* recurring ticks fired in a behaviour (all targets together)
MaxStatus == 600     \* largest HTTP status code a probed server answers with
MaxSec == 130        \* whole seconds 0..MaxSec are all tried as intervals
MaxMin == 61         \* whole minutes 1..MaxMin are all tried as intervals
MaxHr == 25          \* whole hours 1..MaxHr are all tried as intervals

\* ------------------------------------------------------------------ values
Null == "null"                 \* JavaScript null
NullStatus == 0                \* statusCode === null (no HTTP status is 0)
\* Writing up || null: a down outcome stored as null.
BoolOrNull(b) == IF b THEN "true" ELSE Null

Bool(b) == IF b THEN "true" ELSE "false"

VARIABLES
    configFile,   \* what CONFIG_PATH holds when main() reads it
    mainPc,       \* "start" | "running" | "exited" (process.exit(1))
    monitors,     \* main's Map: label -> index of the MonitorState it holds
    jobs,         \* registered recurring jobs: cfg index -> RecurrenceRule
    warmup,       \* the setTimeout(..., 1000): "unset" | "armed" | "fired"
    lastUp,       \* MonitorState.lastUp of the state created for cfg index i
    inflight,     \* checkOnce calls suspended at an await (their frames)
    warmupChecks, \* per cfg index: checkOnce calls the warm-up timer has made for it
    nextId,       \* per state index: number of checkOnce calls started on it so far
    ticks,        \* number of recurring ticks fired so far
    logs,         \* per label: the entries passed to logLine, in call order
    appends,      \* per label and entry: its fs.appendFile is "pending" | "written" | "failed"
    sesCalls,     \* per label: the kinds of mail handed to ses.send, in call order
    rejections,   \* checkOnce promises that rejected (.catch(console.error))
    lastDone      \* per cfg index: the frame of the checkOnce call that returned last

vars == <<configFile, mainPc, monitors, jobs, warmup, warmupChecks, lastUp, inflight, nextId,
          ticks, logs, appends, sesCalls, rejections, lastDone>>

\* ------------------------------------------------------------------ inputs
Labels == {"api", "web"}

Target(l, ms) == [label |-> l, interval |-> ms]

\* A JSON array element that is null: reading cfg.label of it throws.
NullEntry == [label |-> Null, interval |-> 0]

\* What axios.get can end with: a response that resolves, a response thrown as
\* an HTTP error (e.response set), or an error with no response (e.message).
Resolved(s) == [kind |-> "resolved", status |-> s, message |-> Null]
HttpError(s) == [kind |-> "httpError", status |-> s, message |-> Null]
NoResponse(m) == [kind |-> "noResponse", status |-> NullStatus, message |-> m]
Pending == [kind |-> "pending", status |-> NullStatus, message |-> Null]

Messages == {"timeout of 30000ms exceeded", "getaddrinfo ENOTFOUND"}

ProbeResults ==
    {Resolved(200), HttpError(503), NoResponse("timeout of 30000ms exceeded")}

WideProbeResults ==
    {Resolved(s) : s \in 100..MaxStatus} \cup {HttpError(s) : s \in 100..MaxStatus}
        \cup {NoResponse(m) : m \in Messages}

SesResults == {"fulfilled", "rejected"}

\* ------------------------------------------------------------------ buildRule
Range(start, end, step) == [start |-> start, end |-> end, step |-> step]
Unset == [start |-> -1, end |-> -1, step |-> -1]   \* a field of the rule left null
At(n) == [start |-> n, end |-> n, step |-> 1]      \* a field set to the number n

\* buildRule with the first test written sec <= 60.
buildRuleInclusive(interval) ==
    LET sec == interval \div 1000
        min == sec \div 60
        hr  == min \div 60
    IN  IF sec <= 60
          THEN [second |-> Range(0, 59, sec), minute |-> Unset, hour |-> Unset]
        ELSE IF sec % 60 = 0 /\ min < 60
          THEN [second |-> At(0), minute |-> Range(0, 59, min), hour |-> Unset]
        ELSE IF min % 60 = 0 /\ hr < 24
          THEN [second |-> At(0), minute |-> At(0), hour |-> Range(0, 23, hr)]
        ELSE [second |-> At(0), minute |-> At(0), hour |-> At(0)]

\* buildRule with the second test lacking sec % 60 === 0.
buildRuleNoAlignment(interval) ==
    LET sec == interval \div 1000
        min == sec \div 60
        hr  == min \div 60
    IN  IF sec < 60
          THEN [second |-> Range(0, 59, sec), minute |-> Unset, hour |-> Unset]
        ELSE IF min < 60
          THEN [second |-> At(0), minute |-> Range(0, 59, min), hour |-> Unset]
        ELSE IF min % 60 = 0 /\ hr < 24
          THEN [second |-> At(0), minute |-> At(0), hour |-> Range(0, 23, hr)]
        ELSE [second |-> At(0), minute |-> At(0), hour |-> At(0)]

buildRule(interval) ==
    LET sec == interval \div 1000
        min == sec \div 60
        hr  == min \div 60
    IN  IF sec < 60
          THEN [second |-> Range(0, 59, sec), minute |-> Unset, hour |-> Unset]
        ELSE IF sec % 60 = 0 /\ min < 60
          THEN [second |-> At(0), minute |-> Range(0, 59, min), hour |-> Unset]
        ELSE IF min % 60 = 0 /\ hr < 24
          THEN [second |-> At(0), minute |-> At(0), hour |-> Range(0, 23, hr)]
        ELSE [second |-> At(0), minute |-> At(0), hour |-> At(0)]

\* ------------------------------------------------------------------ checkOnce, pure parts
\* probeLocals with the catch block ignoring e.response.
probeLocalsNoResponseTest(r) ==
    IF r.kind = "resolved"
      THEN [thrown |-> FALSE, statusCode |-> r.status, errorMsg |-> Null,
            isConnectionError |-> FALSE]
    ELSE [thrown |-> FALSE, statusCode |-> NullStatus, errorMsg |-> r.message,
          isConnectionError |-> TRUE]

\* probeLocals with the catch block rethrowing an error that has no response.
probeLocalsRethrow(r) ==
    IF r.kind = "resolved" \/ r.kind = "httpError"
      THEN [thrown |-> FALSE, statusCode |-> r.status, errorMsg |-> Null,
            isConnectionError |-> FALSE]
    ELSE [thrown |-> TRUE, statusCode |-> NullStatus, errorMsg |-> Null,
          isConnectionError |-> FALSE]

\* Lines 66-82: the locals after the try/catch around axios.get.
probeLocals(r) ==
    IF r.kind = "resolved"
      THEN [thrown |-> FALSE, statusCode |-> r.status, errorMsg |-> Null,
            isConnectionError |-> FALSE]
    ELSE IF r.kind = "httpError"
      THEN [thrown |-> FALSE, statusCode |-> r.status, errorMsg |-> Null,
            isConnectionError |-> FALSE]
    ELSE [thrown |-> FALSE, statusCode |-> NullStatus, errorMsg |-> r.message,
          isConnectionError |-> TRUE]

\* isDowntime with statusCode > 500.
isDowntimeStrict(isConnectionError, statusCode) ==
    isConnectionError \/ (statusCode # NullStatus /\ statusCode > 500)

\* Lines 87-89.
isDowntime(isConnectionError, statusCode) ==
    isConnectionError \/ (statusCode # NullStatus /\ statusCode >= 500)

\* branch without the else-if of the recovery mail.
branchNoRecovery(last, up) ==
    IF last = Null THEN "initial"
    ELSE IF last = "true" /\ ~up THEN "alert"
    ELSE "same"

\* branch without the first-check test: null is falsy, as false is.
branchNullAsDown(last, up) ==
    IF last = "true" /\ ~up THEN "alert"
    ELSE IF last # "true" /\ up THEN "recovery"
    ELSE "same"

\* Lines 104-131: which branch of the if/else-if chain runs.
branch(last, up) ==
    IF last = Null THEN "initial"
    ELSE IF last = "true" /\ ~up THEN "alert"
    ELSE IF last # "true" /\ up THEN "recovery"
    ELSE "same"

\* sendEmail without its try/catch.
sendEmailNoCatch(sesResult) == IF sesResult = "rejected" THEN "thrown" ELSE "returned"

\* Lines 35-50: how sendEmail ends, given how ses.send ended.
sendEmail(sesResult) == "returned"

\* Line 94: the entry passed to logLine (timestamp, url and duration left out).
logEntry(loc, up) == [statusCode |-> loc.statusCode, error |-> loc.errorMsg, up |-> up]

\* logLine that leaves out the checks that found the target up.
logLineFailuresOnly(label, entry) ==
    IF entry.up THEN logs ELSE [logs EXCEPT ![label] = Append(@, entry)]

\* Lines 56-62: logLine hands one line to fs.appendFile and returns; the
\* write itself completes later, in the callback.
logLine(label, entry) == [logs EXCEPT ![label] = Append(@, entry)]

\* ------------------------------------------------------------------ frames
\* The frame of a checkOnce call as it starts (line 64-68).  result, prev and
\* solo are history: what axios.get settled with, lastUp when the call started,
\* and whether no other call on the same state was in flight at any time
\* during this one.
NewFrame(id, i, st, origin) ==
    [id |-> id, cfg |-> i, state |-> st, origin |-> origin, pc |-> "probe",
     result |-> Pending, statusCode |-> NullStatus, errorMsg |-> Null, isConnectionError |-> FALSE,
     up |-> FALSE, logged |-> FALSE, kind |-> "none", ses |-> "none",
     written |-> Null, rejected |-> FALSE,
     prev |-> lastUp[st], solo |-> \A c \in inflight : c.state # st]

NoFrame ==
    [id |-> 0, cfg |-> 0, state |-> 0, origin |-> "none", pc |-> "none",
     result |-> Pending, statusCode |-> NullStatus, errorMsg |-> Null, isConnectionError |-> FALSE,
     up |-> FALSE, logged |-> FALSE, kind |-> "none", ses |-> "none",
     written |-> Null, rejected |-> FALSE, prev |-> Null, solo |-> FALSE]

\* ------------------------------------------------------------------ main
Entries == IF configFile.kind = "array" THEN configFile.entries ELSE <<>>

\* Index of the first entry whose fields cannot be read, or Len+1.
RECURSIVE FirstBad(_, _)
FirstBad(es, i) ==
    IF i > Len(es) THEN i
    ELSE IF es[i] = NullEntry THEN i
    ELSE FirstBad(es, i + 1)

\* A Map that hands every label the state created last.
MonitorsAfterShared(es, n) == [l \in {es[i].label : i \in 1..n} |-> n]

\* Map.set in entry order: the last entry with a label wins.
MonitorsAfter(es, n) ==
    [l \in {es[i].label : i \in 1..n} |->
        CHOOSE i \in 1..n : es[i].label = l /\ \A j \in 1..n : es[j].label = l => j <= i]

TypeOK ==
    /\ mainPc \in {"start", "running", "exited"}
    /\ warmup \in {"unset", "armed", "fired"}
    /\ ticks \in 0..MaxTicks /\ rejections \in Nat
    /\ \A i \in DOMAIN nextId : nextId[i] \in Nat
    /\ \A i \in DOMAIN lastUp : lastUp[i] \in {Null, "true", "false"}
    /\ \A c \in inflight : c.pc \in {"probe", "notify"}

ConfigFiles ==
    { [kind |-> "unreadable", entries |-> <<>>],
      [kind |-> "unparseable", entries |-> <<>>],
      [kind |-> "notArray", entries |-> <<>>],
      [kind |-> "array", entries |-> <<Target("api", 5000), Target("web", 120000)>>],
      [kind |-> "array", entries |-> <<Target("api", 5000), NullEntry>>] }

InitWith(cf) ==
    /\ configFile = cf
    /\ mainPc = "start"
    /\ monitors = <<>>
    /\ jobs = <<>>
    /\ warmup = "unset"
    /\ warmupChecks = <<>>
    /\ lastUp = <<>>
    /\ inflight = {}
    /\ nextId = <<>>
    /\ ticks = 0
    /\ logs = [l \in Labels |-> <<>>]
    /\ appends = [l \in Labels |-> <<>>]
    /\ sesCalls = [l \in Labels |-> <<>>]
    /\ rejections = 0
    /\ lastDone = <<>>

Init == \E cf \in ConfigFiles : InitWith(cf)

\* Lines 162-199.  readFile, JSON.parse and ensureLogDir precede every
\* registration; the forEach and the setTimeout run without an await between.
main ==
    /\ mainPc = "start"
    /\ LET es == Entries
           bad == FirstBad(es, 1)
           n == bad - 1
       IN  IF configFile.kind # "array"
             THEN /\ mainPc' = "exited"
                  /\ UNCHANGED <<monitors, jobs, warmup, warmupChecks, lastUp, lastDone,
                                 nextId>>
           ELSE /\ lastUp' = [i \in 1..n |-> Null]
                /\ warmupChecks' = [i \in 1..n |-> 0]
                /\ nextId' = [i \in 1..n |-> 0]
                /\ lastDone' = [i \in 1..n |-> NoFrame]
                /\ monitors' = MonitorsAfter(es, n)
                /\ jobs' = [i \in 1..n |-> buildRule(es[i].interval)]
                /\ IF bad <= Len(es)
                     THEN mainPc' = "exited" /\ warmup' = "unset"
                     ELSE mainPc' = "running" /\ warmup' = "armed"
    /\ UNCHANGED <<configFile, inflight, ticks, logs, appends, sesCalls, rejections>>

\* ------------------------------------------------------------------ scheduling
\* A call of checkOnce runs to its first await (axios.get, line 71).
Start(frames) ==
    /\ inflight' = {IF \E f \in frames : f.state = c.state
                      THEN [c EXCEPT !.solo = FALSE] ELSE c : c \in inflight}
                        \cup frames
    /\ nextId' = [st \in DOMAIN nextId |->
                    nextId[st] + Cardinality({f \in frames : f.state = st})]

\* A job callback behind a run-lock that drops the tick of a busy target.
TickIfIdle(i) ==
    /\ mainPc = "running"
    /\ i \in DOMAIN jobs
    /\ ticks < MaxTicks
    /\ \A c \in inflight : c.state # i
    /\ ticks' = ticks + 1
    /\ Start({NewFrame(nextId[i] + 1, i, i, "tick")})
    /\ UNCHANGED <<configFile, mainPc, monitors, jobs, warmup, warmupChecks, lastUp,
                   logs, appends, sesCalls, rejections, lastDone>>

\* Lines 179-181: the job's callback; node-schedule fires it at every time the
\* rule matches, and the callback does not wait for checkOnce.
Tick(i) ==
    /\ mainPc = "running"
    /\ i \in DOMAIN jobs
    /\ ticks < MaxTicks
    /\ ticks' = ticks + 1
    /\ Start({NewFrame(nextId[i] + 1, i, i, "tick")})
    /\ UNCHANGED <<configFile, mainPc, monitors, jobs, warmup, warmupChecks, lastUp,
                   logs, appends, sesCalls, rejections, lastDone>>

\* The entries with no check in flight: a warm-up that skips busy targets.
WarmupTargetsIdle == {i \in 1..Len(Entries) : \A c \in inflight : c.cfg # i}

\* Line 188: configs.forEach visits every entry.
WarmupTargets == 1..Len(Entries)

\* Lines 187-192: the timer's callback starts one checkOnce per entry, each on
\* the state the Map holds for the entry's label.
WarmupRank(i) ==
    Cardinality({j \in WarmupTargets : j <= i /\ monitors[Entries[j].label] = monitors[Entries[i].label]})

WarmupFire ==
    /\ mainPc = "running"
    /\ warmup = "armed"
    /\ warmup' = "fired"
    /\ Start({NewFrame(nextId[monitors[Entries[i].label]] + WarmupRank(i), i,
                       monitors[Entries[i].label], "warmup") : i \in WarmupTargets})
    /\ warmupChecks' = [i \in DOMAIN warmupChecks |->
                          warmupChecks[i] + IF i \in WarmupTargets THEN 1 ELSE 0]
    /\ UNCHANGED <<configFile, mainPc, monitors, jobs, lastUp, ticks, logs,
                   appends, sesCalls, rejections, lastDone>>

\* ------------------------------------------------------------------ checkOnce
Finish(c, f) ==
    /\ inflight' = inflight \ {c}
    /\ lastDone' = [lastDone EXCEPT ![c.cfg] = [f EXCEPT !.pc = "done", !.id = 0]]

\* Lines 72-131: axios.get settles with r; the call runs on to its return or to
\* the await of sendEmail (ses.send has been called by then, line 45).
ProbeReturn(c, r) ==
    /\ c \in inflight
    /\ c.pc = "probe"
    /\ LET loc == probeLocals(r)
           up == ~isDowntime(loc.isConnectionError, loc.statusCode)
           label == Entries[c.cfg].label
           br == branch(lastUp[c.state], up)
           f == [c EXCEPT !.result = r, !.statusCode = loc.statusCode, !.errorMsg = loc.errorMsg,
                          !.isConnectionError = loc.isConnectionError, !.up = up,
                          !.logged = TRUE]
       IN  IF loc.thrown
             THEN /\ Finish(c, [c EXCEPT !.result = r, !.rejected = TRUE])
                  /\ rejections' = rejections + 1
                  /\ UNCHANGED <<logs, appends, sesCalls, lastUp>>
           ELSE /\ logs' = logLine(label, logEntry(loc, up))
                /\ appends' = [l \in Labels |->
                      appends[l] \o [k \in 1..(Len(logs'[l]) - Len(logs[l])) |-> "pending"]]
                /\ UNCHANGED rejections
                /\ IF br = "alert" \/ br = "recovery"
                     THEN LET k == IF br = "alert" THEN "DOWN" ELSE "RECOVERY"
                          IN  /\ sesCalls' = [sesCalls EXCEPT ![label] = Append(@, k)]
                              /\ inflight' = (inflight \ {c})
                                    \cup {[f EXCEPT !.pc = "notify", !.kind = k]}
                              /\ UNCHANGED <<lastUp, lastDone>>
                     ELSE /\ lastUp' = [lastUp EXCEPT ![c.state] = Bool(up)]
                          /\ Finish(c, [f EXCEPT !.written = Bool(up)])
                          /\ UNCHANGED sesCalls
    /\ UNCHANGED <<configFile, mainPc, monitors, jobs, warmup, warmupChecks, nextId, ticks>>

\* Lines 45-49 and 117 / 126: ses.send settles with s, sendEmail ends, and the
\* call writes lastUp and returns.
NotifyReturn(c, s) ==
    /\ c \in inflight
    /\ c.pc = "notify"
    /\ IF sendEmail(s) = "returned"
         THEN /\ lastUp' = [lastUp EXCEPT ![c.state] = Bool(c.up)]
              /\ Finish(c, [c EXCEPT !.ses = s, !.written = Bool(c.up)])
              /\ UNCHANGED rejections
         ELSE /\ Finish(c, [c EXCEPT !.ses = s, !.rejected = TRUE])
              /\ rejections' = rejections + 1
              /\ UNCHANGED lastUp
    /\ UNCHANGED <<configFile, mainPc, monitors, jobs, warmup, warmupChecks, nextId,
                   ticks, logs, appends, sesCalls>>

ProbeStep(results) == \E c \in inflight : \E r \in results : ProbeReturn(c, r)

Next ==
    \/ main
    \/ \E i \in 1..Len(Entries) : Tick(i)
    \/ WarmupFire
    \/ ProbeStep(ProbeResults)
    \/ \E c \in inflight : \E s \in SesResults : NotifyReturn(c, s)

Spec == Init /\ [][Next]_vars

\* ------------------------------------------------------------------ buildRule alone
\* One target whose interval ranges over whole seconds, minutes and hours and
\* their neighbours, with and without a sub-second remainder; main() runs.
SecondsTried ==
    (0..MaxSec)
        \cup {60 * m + d : m \in 1..MaxMin, d \in {0, 1, 59}}
        \cup {3600 * h + d : h \in 1..MaxHr, d \in {0, 30, 60, 1800}}

Intervals == {1000 * sec + r : sec \in SecondsTried, r \in {0, 1, 500, 999}} \ {0}

OneTarget(ms) == [kind |-> "array", entries |-> <<Target("api", ms)>>]

InitRule == \E ms \in Intervals : InitWith(OneTarget(ms))

SpecRule == InitRule /\ [][main]_vars

\* ------------------------------------------------------------------ the first check alone
\* One target, its warm-up check, and every probe result of the wide set.
InitProbe == InitWith(OneTarget(5000))

NextProbe ==
    \/ main
    \/ WarmupFire
    \/ ProbeStep(WideProbeResults)

SpecProbe == InitProbe /\ [][NextProbe]_vars

\* ------------------------------------------------------------------ the log sink
\* Lines 59-61: an fs.appendFile issued by logLine completes, with the line in
\* the file or with an error that is only reported.  Appends to one file may
\* complete in any order.  Spec leaves these completions out: they change
\* appends alone, which no other action reads.
AppendSettles(l, k, outcome) ==
    /\ k \in DOMAIN appends[l]
    /\ appends[l][k] = "pending"
    /\ appends' = [appends EXCEPT ![l][k] = outcome]
    /\ UNCHANGED <<configFile, mainPc, monitors, jobs, warmup, warmupChecks, lastUp,
                   inflight, nextId, ticks, logs, sesCalls, rejections, lastDone>>

AppendStep ==
    \E l \in Labels : \E k \in DOMAIN appends[l] :
        \E outcome \in {"written", "failed"} : AppendSettles(l, k, outcome)

NextSink == Next \/ AppendStep

SinkSpec == InitWith(OneTarget(5000)) /\ [][NextSink]_vars

\* ------------------------------------------------------------------ one target, fair
\* axios.get settles within its 30 s timeout, and ses.send is taken to settle.
CallIds == 1..(MaxTicks + 1)

InFlight(st, id) == \E c \in inflight : c.state = st /\ c.id = id

ProbeSettles(st, id) ==
    \E c \in inflight : c.state = st /\ c.id = id /\ \E r \in ProbeResults : ProbeReturn(c, r)

SesSettles(st, id) ==
    \E c \in inflight : c.state = st /\ c.id = id /\ \E x \in SesResults : NotifyReturn(c, x)

InitOne == InitWith(OneTarget(5000))

LiveSpec ==
    /\ InitOne
    /\ [][Next]_vars
    /\ \A id \in CallIds : WF_vars(ProbeSettles(1, id)) /\ WF_vars(SesSettles(1, id))

\* One target whose server answers 200 or 503; every axios.get settles, while
\* nothing is assumed of ses.send.
Answers == {Resolved(200), HttpError(503)}

ServerAnswers(st, id) ==
    \E c \in inflight : c.state = st /\ c.id = id /\ \E r \in Answers : ProbeReturn(c, r)

NextStuck ==
    \/ main
    \/ \E i \in 1..Len(Entries) : Tick(i)
    \/ WarmupFire
    \/ ProbeStep(Answers)
    \/ \E c \in inflight : \E s \in SesResults : NotifyReturn(c, s)

StuckSpec ==
    /\ InitOne
    /\ [][NextStuck]_vars
    /\ \A id \in CallIds : WF_vars(ServerAnswers(1, id))

\* ------------------------------------------------------------------ claims
Done(i) == lastDone[i].pc = "done"

\* The frames whose probe step has run: the last returned one and those
\* waiting for sendEmail.
PastProbe ==
    {lastDone[i] : i \in {j \in DOMAIN lastDone : Done(j) /\ ~lastDone[j].rejected}}
        \cup {c \in inflight : c.pc = "notify"}

TableAction(prev, up) ==
    IF prev = "true" /\ ~up THEN "DOWN"
    ELSE IF prev = "false" /\ up THEN "RECOVERY"
    ELSE "none"

\* C1: a check cycle that ran with no other cycle of its target in flight
\* ends with status Up iff its outcome is up, and has sent a DOWN alert iff the
\* status before it was Up and the outcome down, a RECOVERY notice iff the
\* status before it was Down and the outcome up, and nothing otherwise.
C1_TransitionTable ==
    \A i \in DOMAIN lastDone :
        LET f == lastDone[i]
        IN  Done(i) /\ f.solo =>
              /\ f.written = Bool(f.up)
              /\ lastUp[f.state] = f.written
              /\ f.kind = TableAction(f.prev, f.up)

C1_Witness ==
    \E i \in DOMAIN lastDone :
        /\ Done(i) /\ lastDone[i].solo
        /\ lastDone[i].prev = "false" /\ lastDone[i].up
        /\ lastDone[i].kind = "RECOVERY"

\* C2: at most one check cycle per target is in flight.
C2_NoOverlap ==
    \A i \in DOMAIN lastUp : Cardinality({c \in inflight : c.state = i}) <= 1

\* The mails that one-per-change asks for, given the outcomes logged.
RECURSIVE MailsFor(_)
MailsFor(log) ==
    IF Len(log) < 2 THEN <<>>
    ELSE LET n == Len(log)
             before == MailsFor(SubSeq(log, 1, n - 1))
         IN  IF log[n].up = log[n - 1].up THEN before
             ELSE Append(before, IF log[n].up THEN "RECOVERY" ELSE "DOWN")

\* C3: the mails sent for a target are exactly one per change between
\* consecutive outcomes, DOWN for up-to-down and RECOVERY for down-to-up.
C3_OneMailPerChange ==
    \A l \in Labels : sesCalls[l] = MailsFor(logs[l])

AllUp(l) == \A k \in 1..Len(logs[l]) : logs[l][k].up

\* C4: a target whose probes were all up has sent no mail.
C4_AlwaysUpNoMail ==
    \A l \in Labels : AllUp(l) => sesCalls[l] = <<>>

C4_Witness ==
    /\ Len(logs["api"]) = 3 /\ AllUp("api")
    /\ Done(1) /\ ~lastDone[1].solo

\* C5: the rule registered for a target is the first matching one of: (1)
\* sec < 60: every sec seconds from 0 to 59; (2) sec a multiple of 60 and
\* min < 60: second 0 of every min minutes from 0 to 59; (3) min a multiple
\* of 60 and hr < 24: minute 0, second 0 of every hr hours from 0 to 23; (4)
\* hour 0, minute 0, second 0; with sec, min, hr the whole seconds, minutes
\* and hours of the interval.  5000 ms gives seconds 0, 5, ..., 55 and
\* 120000 ms every 2 minutes at second 0.
Stepped(last, step) == [start |-> 0, end |-> last, step |-> step]
Exactly(n) == [start |-> n, end |-> n, step |-> 1]
Every == [start |-> -1, end |-> -1, step |-> -1]
Daily == [second |-> Exactly(0), minute |-> Exactly(0), hour |-> Exactly(0)]

Values(r) == {v \in r.start..r.end : r.step > 0 /\ (v - r.start) % r.step = 0}

C5_RulePrecedence ==
    \A i \in DOMAIN jobs :
        LET ms == Entries[i].interval
            sec == ms \div 1000
            min == ms \div 60000
            hr == ms \div 3600000
            rule == jobs[i]
        IN  /\ sec < 60 =>
                rule = [second |-> Stepped(59, sec), minute |-> Every, hour |-> Every]
            /\ sec >= 60 /\ sec % 60 = 0 /\ min < 60 =>
                rule = [second |-> Exactly(0), minute |-> Stepped(59, min), hour |-> Every]
            /\ sec >= 60 /\ ~(sec % 60 = 0 /\ min < 60) /\ min % 60 = 0 /\ hr < 24 =>
                rule = [second |-> Exactly(0), minute |-> Exactly(0),
                        hour |-> Stepped(23, hr)]
            /\ sec >= 60 /\ ~(sec % 60 = 0 /\ min < 60) /\ ~(min % 60 = 0 /\ hr < 24) =>
                rule = Daily
            /\ ms = 5000 => Values(rule.second) = {0, 5, 10, 15, 20, 25, 30, 35, 40, 45, 50, 55}
            /\ ms = 120000 =>
                /\ rule.second = Exactly(0)
                /\ Values(rule.minute) = {2 * k : k \in 0..29}

C5_Witness ==
    /\ mainPc = "running"
    /\ Entries[1].interval = 7200000
    /\ jobs[1].hour = Stepped(23, 2)

\* The interval is not a whole number of seconds, or of minutes when under an
\* hour, or of hours when an hour or more and under a day.
Misaligned(ms) ==
    \/ ms % 1000 # 0
    \/ ms < 3600000 /\ ms % 60000 # 0
    \/ ms >= 3600000 /\ ms < 86400000 /\ ms % 3600000 # 0

\* C6 as stated: every interval of 60 s or more that is not aligned gets the
\* daily rule.
C6_MisalignedIsDaily ==
    \A i \in DOMAIN jobs :
        Entries[i].interval >= 60000 /\ Misaligned(Entries[i].interval) => jobs[i] = Daily

\* C6 amended: every interval of 60 s or more whose whole seconds are not a
\* multiple of 60 when under an hour, or whose whole minutes are not a
\* multiple of 60 when an hour or more and under a day, gets the daily rule.
C6_TruncatedMisalignedIsDaily ==
    \A i \in DOMAIN jobs :
        LET sec == Entries[i].interval \div 1000
            min == sec \div 60
        IN  (\/ sec >= 60 /\ sec < 3600 /\ sec % 60 # 0
             \/ min >= 60 /\ min < 1440 /\ min % 60 # 0) => jobs[i] = Daily

C6_Witness ==
    /\ mainPc = "running"
    /\ Entries[1].interval = 65000
    /\ jobs[1] = Daily

\* C7: up is the negation of (connection failure, or a status code present
\* and >= 500): a response below 500 is up, one of 500 or more is down.
C7_UpClassification ==
    \A f \in PastProbe :
        /\ f.up = ~(f.isConnectionError \/ (f.statusCode # NullStatus /\ f.statusCode >= 500))
        /\ f.result.kind # "noResponse" /\ f.result.status < 500 => f.up
        /\ f.result.kind # "noResponse" /\ f.result.status >= 500 => ~f.up
        /\ logs[Entries[f.cfg].label] # <<>>

C7_Witness ==
    \E f \in PastProbe : f.result = HttpError(499) /\ f.up

\* C8: the connection-failure flag is set exactly when the probe ended with no
\* response; then statusCode is absent, errorMsg is the error's message and up
\* is false; with a response, statusCode is its status, errorMsg is absent.
C8_ConnectionFailure ==
    \A f \in PastProbe :
        /\ f.isConnectionError <=> f.result.kind = "noResponse"
        /\ f.result.kind = "noResponse" =>
              f.statusCode = NullStatus /\ f.errorMsg = f.result.message /\ ~f.up
        /\ f.result.kind # "noResponse" =>
              f.statusCode = f.result.status /\ f.errorMsg = Null

C8_Witness ==
    \E f \in PastProbe : f.result = HttpError(503) /\ ~f.isConnectionError /\ ~f.up

\* C9: a cycle whose mail was rejected by SES returns as one whose mail was
\* accepted does: it writes the status of its outcome, and its promise does
\* not reject.
C9_NotifierFailureHarmless ==
    /\ rejections = 0
    /\ \A i \in DOMAIN lastDone :
          LET f == lastDone[i]
          IN  Done(i) /\ f.ses \in SesResults =>
                ~f.rejected /\ f.written = Bool(f.up) /\ lastUp[f.state] = f.written

C9_Witness ==
    \E i \in DOMAIN lastDone :
        Done(i) /\ lastDone[i].ses = "rejected" /\ lastDone[i].written = "false"

\* C10: whatever axios.get settles with, a started cycle returns, with its log
\* entry issued and its status written, and its promise does not reject.
C10_CycleCompletes ==
    /\ [][\A c \in inflight :
            (~\E d \in inflight' : d.state = c.state /\ d.id = c.id) =>
                LET f == lastDone'[c.cfg]
                IN  /\ ~f.rejected /\ f.logged
                    /\ f.written = Bool(f.up)
                    /\ lastUp'[c.state] = f.written
                    /\ rejections' = 0]_vars
    /\ \A id \in CallIds : InFlight(1, id) ~> ~InFlight(1, id)

C10_Witness ==
    /\ 1 \in DOMAIN lastDone
    /\ Done(1)
    /\ lastDone[1].result.kind = "noResponse"
    /\ lastDone[1].logged /\ lastDone[1].written = "false"

\* C11: when a mail is handed to ses.send, the log line of the outcome that
\* caused it is already written to the file.
C11_LogWrittenBeforeMail ==
    [][\A l \in Labels :
         Len(sesCalls'[l]) > Len(sesCalls[l]) =>
             /\ Len(logs'[l]) > 0
             /\ appends'[l][Len(logs'[l])] = "written"]_vars

\* The checks of label l that have passed their probe step.
PastProbeCount(l) ==
    LET is == {i \in DOMAIN nextId : Entries[i].label = l}
        started == {<<i, id>> : i \in is, id \in CallIds}
    IN  Cardinality({p \in started : p[2] <= nextId[p[1]]})
          - Cardinality({c \in inflight : c.state \in is /\ c.pc = "probe"})

\* C12: every check cycle has one probe result and one log entry: the entries
\* passed to logLine for a target are as many as its cycles past the probe
\* step, and every such cycle has a probe result and has logged.
C12_OneProbeOneLog ==
    /\ \A l \in Labels : Len(logs[l]) = PastProbeCount(l)
    /\ \A l \in Labels : Len(appends[l]) = Len(logs[l])
    /\ \A f \in PastProbe : f.logged /\ f.result # Pending
    /\ \A c \in inflight : c.pc = "probe" => ~c.logged /\ c.result = Pending

C12_Witness ==
    /\ Len(logs["api"]) = 3
    /\ \E k \in 1..3 : logs["api"][k].up
    /\ \E k \in 1..3 : ~logs["api"][k].up
    /\ \E c \in inflight : c.cfg = 1 /\ c.pc = "notify"

RECURSIVE SumTo(_, _)
SumTo(f, n) == IF n = 0 THEN 0 ELSE f[n] + SumTo(f, n - 1)

\* C13: once the warm-up timer has fired every loaded target has had exactly
\* one warm-up check, and none before; the armed timer can fire whatever
\* checks are in flight; and the warm-up checks come on top of the ticks: the
\* calls started are the ticks plus the warm-up checks.
C13_OneWarmupCheckEach ==
    /\ \A i \in DOMAIN warmupChecks :
          warmupChecks[i] = IF warmup = "fired" THEN 1 ELSE 0
    /\ mainPc = "running" => DOMAIN warmupChecks = 1..Len(Entries)
    /\ mainPc = "running" /\ warmup = "armed" => ENABLED WarmupFire
    /\ mainPc = "running" => warmup # "unset"
    /\ SumTo(nextId, Len(nextId)) = ticks + SumTo(warmupChecks, Len(warmupChecks))

C13_Witness ==
    /\ warmup = "fired"
    /\ \E c \in inflight : c.cfg = 1 /\ c.origin = "tick" /\ c.id = 1
    /\ \E c \in inflight : c.cfg = 1 /\ c.origin = "warmup" /\ c.id = 2
    /\ \E c \in inflight : c.cfg = 2 /\ c.origin = "warmup" /\ c.id = 1

\* The call c has moved in this step: it went on to sendEmail or it returned.
Moved(c) == ~\E d \in inflight' : d.state = c.state /\ d.id = c.id /\ d.pc = c.pc

Returned(c) == ~\E d \in inflight' : d.state = c.state /\ d.id = c.id

\* C14: every status is Unknown when main has created it; a status that is Up
\* or Down never becomes Unknown; and a status changes only in the step in
\* which a check of that target returns, its probe settled and logged.
C14_StatusNeverUnknownAgain ==
    [][/\ mainPc = "start" => \A i \in DOMAIN lastUp' : lastUp'[i] = Null
       /\ \A i \in DOMAIN lastUp :
            /\ lastUp[i] # Null => lastUp'[i] # Null
            /\ lastUp'[i] # lastUp[i] =>
                  \E c \in inflight :
                      /\ c.state = i /\ Returned(c)
                      /\ lastDone'[c.cfg].result # Pending
                      /\ lastDone'[c.cfg].logged
                      /\ lastUp'[i] = Bool(lastDone'[c.cfg].up)]_vars

C14_Witness ==
    /\ 1 \in DOMAIN lastUp
    /\ lastUp[1] = "false"
    /\ lastDone[1].prev = "true"

\* C15: with distinct labels, the step of a check of one target leaves the
\* status of every other target as it was, and every check of a target, the
\* warm-up check included, runs on the state created for that target.
C15_TargetsIndependent ==
    [][/\ \A c \in inflight' : c.state = c.cfg
       /\ \A c \in inflight :
            Moved(c) => \A i \in DOMAIN lastUp : i # c.cfg => lastUp'[i] = lastUp[i]]_vars

C15_Witness ==
    /\ DOMAIN lastUp = {1, 2}
    /\ lastUp[1] = "false" /\ lastDone[1].ses = "rejected"
    /\ lastUp[2] = "true" /\ lastDone[2].origin = "warmup"

\* C16: while a call waits for its mail, a tick of its target can still start
\* a check; and if the mail of call k never settles while the others do, every
\* other call of the target still returns, having logged.
C16_StuckMailBlocksNothing ==
    /\ [](\A c \in inflight :
            c.pc = "notify" /\ ticks < MaxTicks => ENABLED Tick(c.cfg))
    /\ [](\A i \in DOMAIN lastDone : Done(i) => lastDone[i].logged)
    /\ \A k \in CallIds :
          (\A id \in CallIds \ {k} : WF_vars(SesSettles(1, id)))
              => \A id \in CallIds \ {k} : InFlight(1, id) ~> ~InFlight(1, id)

C16_Witness ==
    /\ inflight # {}
    /\ \A c \in inflight : c.id = 2 /\ c.pc = "notify"
    /\ nextId[1] = 3
    /\ Len(logs["api"]) = 3
    /\ lastDone[1].origin = "tick" /\ ~lastDone[1].solo

\* C17: when startup has aborted, no recurring job is registered, no warm-up
\* timer is set and no check has run, for any target.
C17_AbortBeforeScheduling ==
    mainPc = "exited" =>
        /\ DOMAIN jobs = {}
        /\ warmup = "unset"
        /\ inflight = {}
        /\ \A i \in DOMAIN nextId : nextId[i] = 0
        /\ \A l \in Labels : logs[l] = <<>>

\* C18: checks of one target take effect in the order they started: when a
\* call reads the status (its probe has settled), no call of the target that
\* started before it is still in flight.
C18_EffectInStartOrder ==
    [][\A c \in inflight :
         c.pc = "probe" /\ Moved(c) =>
             \A d \in inflight : d.state = c.state => d.id >= c.id]_vars

\* C19: the mails of one target alternate in kind: no two DOWN alerts and no
\* two RECOVERY notices follow each other.
C19_MailsAlternate ==
    \A l \in Labels :
        \A k \in 1..(Len(sesCalls[l]) - 1) : sesCalls[l][k] # sesCalls[l][k + 1]

\* C20: every stepped range of a registered rule has a step of at least 1.
C20_StepAtLeastOne ==
    \A i \in DOMAIN jobs :
        \A r \in {jobs[i].second, jobs[i].minute, jobs[i].hour} :
            r # Unset => r.step >= 1

====
